---- MODULE Spec2Model ----
(***************************************************************************)
(* Golf database: the enhanced ETL pipeline (enhanced_golf_etl.py), the   *)
(* duplicate-course fix (scripts/database/fix_duplicate_courses.py) and   *)
(* the read-only API endpoints (src/api/app.py) over one SQLite database. *)
(*                                                                         *)
(* Text values are sequences of one-character strings, so that            *)
(* str.split(), ' '.join(), str.split(" - ") and SQL LIKE are computed    *)
(* the way the code computes them.  A missing text value (pandas NaN, SQL *)
(* NULL) is NaN; a missing integer is NoInt.                              *)
(***************************************************************************)
EXTENDS Integers, Sequences, FiniteSets, TLC

NaN == <<"NaN">>
NoInt == 0 - 1

\* ------------------------------------------------------------ bounds
MaxRows == 2
MaxRuns == 2
MaxCourses == 3
MaxTournaments == 2

\* ------------------------------------------------------------ text helpers
\* pd.isna / pd.notna of a text cell and of a numeric cell
isna(v) == v = NaN
notna(v) == v # NaN
isna_num(v) == v = NoInt
notna_num(v) == v # NoInt

Max(S) == CHOOSE x \in S : \A y \in S : y <= x
Min(S) == CHOOSE x \in S : \A y \in S : x <= y

RECURSIVE Tokens(_, _, _, _)
Tokens(s, i, cur, acc) ==
    IF i > Len(s)
    THEN IF cur = <<>> THEN acc ELSE Append(acc, cur)
    ELSE IF s[i] = " "
         THEN Tokens(s, i + 1, <<>>, IF cur = <<>> THEN acc ELSE Append(acc, cur))
         ELSE Tokens(s, i + 1, Append(cur, s[i]), acc)

\* str.split(): split on runs of whitespace, no empty tokens
split(s) == Tokens(s, 1, <<>>, <<>>)

RECURSIVE join(_)
\* ' '.join(parts)
join(parts) ==
    IF parts = <<>> THEN <<>>
    ELSE IF Len(parts) = 1 THEN parts[1]
    ELSE parts[1] \o <<" ">> \o join(Tail(parts))

StartsAt(s, sub, i) ==
    /\ i + Len(sub) - 1 <= Len(s)
    /\ \A k \in 1..Len(sub) : s[i + k - 1] = sub[k]

\* Python's `sub in s`
Contains(s, sub) == \E i \in 1..(Len(s) + 1) : StartsAt(s, sub, i)

RECURSIVE SepTokens(_, _, _, _, _)
SepTokens(s, sep, i, cur, acc) ==
    IF i > Len(s) THEN Append(acc, cur)
    ELSE IF StartsAt(s, sep, i)
         THEN SepTokens(s, sep, i + Len(sep), <<>>, Append(acc, cur))
         ELSE SepTokens(s, sep, i + 1, Append(cur, s[i]), acc)

\* str.split(sep) for a non-empty separator
split_sep(s, sep) == SepTokens(s, sep, 1, <<>>, <<>>)

Dash == <<" ", "-", " ">>

UpperCase ==
    <<"A", "B", "C", "D", "E", "F", "G", "H", "I", "J", "K", "L", "M",
      "N", "O", "P", "Q", "R", "S", "T", "U", "V", "W", "X", "Y", "Z">>
LowerCase ==
    <<"a", "b", "c", "d", "e", "f", "g", "h", "i", "j", "k", "l", "m",
      "n", "o", "p", "q", "r", "s", "t", "u", "v", "w", "x", "y", "z">>

\* ASCII case folding of SQLite's LIKE
lower(ch) ==
    IF \E k \in 1..Len(UpperCase) : UpperCase[k] = ch
    THEN LowerCase[CHOOSE k \in 1..Len(UpperCase) : UpperCase[k] = ch]
    ELSE ch

\* ------------------------------------------------------------ CSV files
\* player names of the CSV files
PlayerAB == <<"a", " ", "b">>
PlayerAB2 == <<"a", " ", " ", "b">>
PlayerC == <<"c">>
PlayerSC == <<" ", "c">>

\* course names of the tournament CSV
CourseA == <<"A">>
CourseAX == <<"A", " ", "-", " ", "X">>
CourseAY == <<"A", " ", "-", " ", "Y">>

NameM == <<"M">>
NameN == <<"N">>
Date21 == <<"2", "1">>

TRow(tid, tname, course, par, date, season, player, cut, strokes) ==
    [tournament_id |-> tid, tournament_name |-> tname, course |-> course,
     hole_par |-> par, date |-> date, purse |-> 7, season |-> season,
     no_cut |-> 0, player |-> player, made_cut |-> cut, strokes |-> strokes]

\* rows a tournament-level CSV is made of
TournamentRows ==
    { TRow(1, NameM, CourseAX, 72, Date21, 21, PlayerAB, 1, 70),
      TRow(1, NameM, CourseAX, 72, Date21, 21, PlayerAB2, 1, 68),
      TRow(1, NameM, CourseAX, 71, Date21, 21, PlayerC, 0, 75),
      TRow(2, NameN, CourseAY, 72, NaN, 20, PlayerSC, 1, 68),
      TRow(2, NaN, CourseA, 72, NaN, 20, PlayerAB, 1, 71),
      TRow(1, NameM, CourseAX, 72, Date21, 21, NaN, NoInt, NoInt),
      TRow(2, NameN, NaN, NoInt, Date21, 20, PlayerAB, NoInt, 69),
      TRow(1, NameM, CourseA, 72, Date21, 20, PlayerC, 1, 66) }

SeqsUpTo(S, n) == UNION { [1..k -> S] : k \in 0..n }

File(rows) == [exists |-> TRUE, rows |-> rows]
Missing == [exists |-> FALSE, rows |-> <<>>]

\* the tournament-level CSV on disk: absent, or a sequence of rows
TournamentFiles == {Missing} \cup {File(rows) : rows \in SeqsUpTo(TournamentRows, MaxRows)}

YRow(player, year) == [player_name |-> player, year |-> year]

\* the yearly CSV on disk: absent, or a sequence of rows
YearlyFiles ==
    { Missing, File(<<>>),
      File(<<YRow(PlayerAB, 18)>>),
      File(<<YRow(PlayerC, 18), YRow(PlayerC, 18)>>),
      File(<<YRow(NaN, 18)>>),
      File(<<YRow(PlayerSC, NoInt)>>),
      File(<<YRow(PlayerAB, 18), YRow(PlayerAB, NoInt)>>) }

\* ------------------------------------------------------------ state
VARIABLES
    tournament_csv,        \* data/.../ASA All PGA Raw Data - Tourn Level.csv
    yearly_csv,            \* data/.../pgaTourData.csv
    players,               \* committed rows of table players
    courses_enhanced,      \* committed rows of table courses_enhanced
    tournaments_enhanced,  \* committed rows of table tournaments_enhanced
    tournament_results,    \* committed rows of table tournament_results
    player_yearly_stats,   \* committed rows of table player_yearly_stats
    pc,                    \* position of run_enhanced_etl
    runs,                  \* ETL runs started
    etl_result,            \* return value of the last run_enhanced_etl
    hist,                  \* the last operation and the database it started from
    response,              \* the HTTP response the API is sending
    session,               \* self.session of the ETL: its state and its pending rows
    log,                   \* the steps the current ETL run has printed as done
    parsedQuery            \* the query the front end handles and its interpretation

files == <<tournament_csv, yearly_csv>>
db == <<players, courses_enhanced, tournaments_enhanced, tournament_results,
        player_yearly_stats>>
vars == <<tournament_csv, yearly_csv, players, courses_enhanced,
          tournaments_enhanced, tournament_results, player_yearly_stats,
          pc, runs, etl_result, hist, response, session, log, parsedQuery>>

Snapshot ==
    [players |-> players, courses_enhanced |-> courses_enhanced,
     tournaments_enhanced |-> tournaments_enhanced,
     tournament_results |-> tournament_results,
     player_yearly_stats |-> player_yearly_stats]

NoResponse == [endpoint |-> "none", status |-> 0]

\* no session yet; create_session() opens one, the finally clause closes it
NoSession == [state |-> "none", new |-> <<>>]

\* the text box of the front end is empty
NoQuery == [query |-> <<>>, parsed |-> [type |-> "none"]]

\* ------------------------------------------------------------ session
\* sessionmaker(autocommit=False, autoflush=False): a query reads the
\* committed rows only, never the rows added to the session and not yet flushed
SessionLocal(committed, pending) == committed

\* SQLite rowid of an INTEGER PRIMARY KEY: one more than the largest in the table
NextId(ids) == IF ids = {} THEN 1 ELSE Max(ids) + 1

\* a commit that writes the pending rows over the table
commit_replacing(table, key, pending) ==
    { (key :> i) @@ pending[i] : i \in 1..Len(pending) }

\* session.commit(): the pending rows get their keys in the order they were added
commit(table, key, pending) ==
    LET base == NextId({r[key] : r \in table})
    IN table \cup { (key :> (base + i - 1)) @@ pending[i] : i \in 1..Len(pending) }

\* Query.first() of an unordered query: SQLite scans the table in rowid order
first(rows, key) ==
    IF rows = {} THEN {} ELSE {CHOOSE r \in rows : \A q \in rows : r[key] <= q[key]}

RECURSIVE drop_duplicates(_, _)
\* DataFrame.drop_duplicates(): keep the first occurrence, in order
drop_duplicates(rows, seen) ==
    IF rows = <<>> THEN <<>>
    ELSE IF Head(rows) \in seen THEN drop_duplicates(Tail(rows), seen)
    ELSE <<Head(rows)>> \o drop_duplicates(Tail(rows), seen \cup {Head(rows)})

Orderings(S) ==
    { f \in [1..Cardinality(S) -> S] : \A i, j \in 1..Cardinality(S) : f[i] = f[j] => i = j }

\* load_tournament_data / load_yearly_data: pd.read_csv succeeds iff the file exists
tournament_loaded == tournament_csv.exists
yearly_loaded == yearly_csv.exists
df_tournament == tournament_csv.rows
df_yearly == yearly_csv.rows

\* ------------------------------------------------------------ load_players
\* the (first_name, last_name) the existence check of load_players filters by
player_filter(player_name) ==
    <<IF Len(split(player_name)) > 1 THEN split(player_name)[1] ELSE player_name,
      IF Len(split(player_name)) > 1 THEN join(Tail(split(player_name))) ELSE <<>>>>

\* the (first_name, last_name) computed from name_parts = str(player_name).split()
name_parts_key(player_name) ==
    LET name_parts == split(player_name)
    IN <<IF name_parts # <<>> THEN name_parts[1] ELSE player_name,
         IF Len(name_parts) > 1 THEN join(Tail(name_parts)) ELSE <<>>>>

all_players ==
    (IF tournament_loaded
     THEN {df_tournament[i].player : i \in 1..Len(df_tournament)} \ {NaN} ELSE {})
    \cup
    (IF yearly_loaded
     THEN {df_yearly[i].player_name : i \in 1..Len(df_yearly)} \ {NaN} ELSE {})

RECURSIVE players_loop(_, _, _, _)
players_loop(table, names, i, pending) ==
    IF i > Len(names) THEN pending
    ELSE LET player_name == names[i]
             existing_player ==
                 first({p \in SessionLocal(table, pending) :
                          /\ p.first_name = player_filter(player_name)[1]
                          /\ p.last_name = player_filter(player_name)[2]}, "player_id")
         IN IF player_name = <<>> \/ existing_player # {}
            THEN players_loop(table, names, i + 1, pending)
            ELSE players_loop(table, names, i + 1,
                     Append(pending, [first_name |-> name_parts_key(player_name)[1],
                                      last_name |-> name_parts_key(player_name)[2]]))

load_players(table, names) == commit(table, "player_id", players_loop(table, names, 1, <<>>))

\* ------------------------------------------------------------ load_courses
RECURSIVE courses_loop(_, _, _, _)
courses_loop(table, unique_courses, i, pending) ==
    IF i > Len(unique_courses) THEN pending
    ELSE LET course_name == unique_courses[i][1]
             hole_par == unique_courses[i][2]
             existing_course ==
                 first({c \in SessionLocal(table, pending) : c.course_name = course_name},
                       "course_id")
             parts == split_sep(course_name, Dash)
             parsed == Contains(course_name, Dash) /\ Len(parts) > 1
         IN IF isna(course_name) \/ existing_course # {}
            THEN courses_loop(table, unique_courses, i + 1, pending)
            ELSE courses_loop(table, unique_courses, i + 1,
                     Append(pending,
                            [course_name |-> IF parsed THEN parts[1] ELSE course_name,
                             location |-> IF parsed THEN parts[2] ELSE <<>>,
                             total_par |-> IF notna_num(hole_par) THEN hole_par ELSE NoInt]))

load_courses(table, df) ==
    LET unique_courses ==
            drop_duplicates([i \in 1..Len(df) |-> <<df[i].course, df[i].hole_par>>], {})
    IN commit(table, "course_id", courses_loop(table, unique_courses, 1, <<>>))

\* ------------------------------------------------------------ load_tournaments
\* str(row['tournament id'])
str(v) == <<v>>

\* TournamentEnhanced(external_tournament_id=tournament_id, ..., course_id=..., ...)
new_tournament(tournament_id, row, course) ==
    [external_tournament_id |-> tournament_id,
     tournament_name |-> row.tournament_name,
     course_id |-> IF course # {} THEN (CHOOSE c \in course : TRUE).course_id ELSE NoInt,
     tournament_date |-> row.date,
     purse_millions |-> row.purse,
     season |-> row.season,
     has_cut |-> IF notna_num(row.no_cut) THEN row.no_cut = 0 ELSE TRUE]

\* the course looked up under the name as the CSV gives it
lookup_name_whole(course) == course

\* the name the course is looked up under: the text before the first " - "
lookup_name(course) ==
    IF Contains(course, Dash) THEN split_sep(course, Dash)[1] ELSE course

RECURSIVE tournaments_loop(_, _, _, _, _)
tournaments_loop(table, courses, unique_tournaments, i, pending) ==
    IF i > Len(unique_tournaments) THEN pending
    ELSE LET row == unique_tournaments[i]
             tournament_id == str(row.tournament_id)
             existing_tournament ==
                 first({t \in SessionLocal(table, pending) :
                          t.external_tournament_id = tournament_id}, "tournament_id")
             course_name == lookup_name(row.course)
             course ==
                 IF notna(row.course)
                 THEN first({c \in SessionLocal(courses, <<>>) : c.course_name = course_name},
                            "course_id")
                 ELSE {}
         IN IF isna(row.tournament_name) \/ existing_tournament # {}
            THEN tournaments_loop(table, courses, unique_tournaments, i + 1, pending)
            ELSE tournaments_loop(table, courses, unique_tournaments, i + 1,
                     Append(pending, new_tournament(tournament_id, row, course)))

load_tournaments(table, courses, df) ==
    LET unique_tournaments ==
            drop_duplicates(
                [i \in 1..Len(df) |->
                    [tournament_id |-> df[i].tournament_id,
                     tournament_name |-> df[i].tournament_name,
                     course |-> df[i].course, date |-> df[i].date,
                     purse |-> df[i].purse, season |-> df[i].season,
                     no_cut |-> df[i].no_cut]], {})
    IN commit(table, "tournament_id",
              tournaments_loop(table, courses, unique_tournaments, 1, <<>>))

\* ------------------------------------------------------------ load_tournament_results
\* the row keyed by the CSV's tournament id instead of the table's key
new_result_external_id(tournament, player, row) ==
    [tournament_id |-> row.tournament_id,
     player_id |-> player.player_id,
     total_strokes |-> row.strokes,
     par_total |-> row.hole_par,
     made_cut |-> row.made_cut]

\* TournamentResult(tournament_id=tournament.tournament_id, player_id=player.player_id, ...)
new_result(tournament, player, row) ==
    [tournament_id |-> tournament.tournament_id,
     player_id |-> player.player_id,
     total_strokes |-> row.strokes,
     par_total |-> row.hole_par,
     made_cut |-> row.made_cut]

RECURSIVE results_loop(_, _, _, _, _, _)
results_loop(table, tournaments, plrs, df, i, pending) ==
    IF i > Len(df) THEN pending
    ELSE LET row == df[i]
             tournament ==
                 first({t \in SessionLocal(tournaments, <<>>) :
                          t.external_tournament_id = str(row.tournament_id)},
                       "tournament_id")
             player_name == row.player
             player ==
                 first({p \in SessionLocal(plrs, <<>>) :
                          /\ p.first_name = name_parts_key(player_name)[1]
                          /\ p.last_name = name_parts_key(player_name)[2]}, "player_id")
             t_id == (CHOOSE t \in tournament : TRUE).tournament_id
             p_id == (CHOOSE q \in player : TRUE).player_id
             existing_result ==
                 first({r \in SessionLocal(table, pending) :
                          r.tournament_id = t_id /\ r.player_id = p_id}, "result_id")
         IN IF isna(player_name) \/ tournament = {} \/ player = {}
            THEN results_loop(table, tournaments, plrs, df, i + 1, pending)
            ELSE IF existing_result # {}
            THEN results_loop(table, tournaments, plrs, df, i + 1, pending)
            ELSE results_loop(table, tournaments, plrs, df, i + 1,
                     Append(pending,
                            new_result(CHOOSE t \in tournament : TRUE,
                                       CHOOSE q \in player : TRUE, row)))

load_tournament_results(table, tournaments, plrs, df) ==
    commit(table, "result_id", results_loop(table, tournaments, plrs, df, 1, <<>>))

\* ------------------------------------------------------------ load_yearly_stats
\* str(float('nan'))
nan_text == <<"n", "a", "n">>

\* the exception leaving load_yearly_stats, the session holding the rows added so far
Raised(pending) == [raised |-> TRUE, pending |-> pending]

RECURSIVE yearly_loop(_, _, _, _, _)
\* int(row['Year']) of a missing year raises ValueError, once the player is found
yearly_loop(table, plrs, df, i, pending) ==
    IF i > Len(df) THEN [raised |-> FALSE, pending |-> pending]
    ELSE LET row == df[i]
             player_name == IF isna(row.player_name) THEN nan_text ELSE row.player_name
             player ==
                 first({p \in SessionLocal(plrs, <<>>) :
                          /\ p.first_name = name_parts_key(player_name)[1]
                          /\ p.last_name = name_parts_key(player_name)[2]}, "player_id")
             p_id == (CHOOSE q \in player : TRUE).player_id
             existing_stat ==
                 first({y \in SessionLocal(table, pending) :
                          y.player_id = p_id /\ y.year = row.year}, "stat_id")
         IN IF player = {} THEN yearly_loop(table, plrs, df, i + 1, pending)
            ELSE IF isna_num(row.year) THEN Raised(pending)
            ELSE IF existing_stat # {} THEN yearly_loop(table, plrs, df, i + 1, pending)
            ELSE yearly_loop(table, plrs, df, i + 1,
                     Append(pending, [player_id |-> p_id, year |-> row.year]))

\* ------------------------------------------------------------ fix_course_duplicates
Digits == <<"0", "1", "2", "3", "4", "5", "6", "7", "8", "9">>

RECURSIVE int_text(_)
\* the decimal text of a non-negative integer (GROUP_CONCAT, str)
int_text(n) ==
    IF n < 10 THEN <<Digits[n + 1]>> ELSE int_text(n \div 10) \o <<Digits[(n % 10) + 1]>>

is_digit(ch) == \E d \in 1..10 : Digits[d] = ch
digit_value(ch) == (CHOOSE d \in 1..10 : Digits[d] = ch) - 1

\* int() accepts a non-empty text of decimal digits
int_ok(text) == text # <<>> /\ \A k \in 1..Len(text) : is_digit(text[k])

RECURSIVE int(_)
int(text) ==
    IF Len(text) = 1 THEN digit_value(text[1])
    ELSE 10 * int(SubSeq(text, 1, Len(text) - 1)) + digit_value(text[Len(text)])

RECURSIVE join_comma(_)
join_comma(parts) ==
    IF parts = <<>> THEN <<>>
    ELSE IF Len(parts) = 1 THEN parts[1]
    ELSE parts[1] \o <<",">> \o join_comma(Tail(parts))

RECURSIVE in_order(_, _)
\* the rows of a set, in rowid order
in_order(rows, key) ==
    IF rows = {} THEN <<>>
    ELSE LET r == CHOOSE r \in rows : \A q \in rows : r[key] <= q[key]
         IN <<r>> \o in_order(rows \ {r}, key)

\* GROUP_CONCAT(course_id)
group_concat(rows) ==
    LET f == in_order(rows, "course_id")
    IN join_comma([i \in 1..Cardinality(rows) |-> int_text(f[i].course_id)])

\* SELECT course_name, location, MIN(course_id), GROUP_CONCAT(course_id)
\* ... GROUP BY course_name, location HAVING COUNT(*) > 1
duplicate_groups(courses) ==
    LET group(c) == {d \in courses : d.course_name = c.course_name
                                     /\ d.location = c.location}
    IN { [course_name |-> c.course_name, location |-> c.location,
          keep_id |-> Min({d.course_id : d \in group(c)}),
          all_ids |-> group_concat(group(c))] :
         c \in {c \in courses : Cardinality(group(c)) > 1} }

\* the UPDATE with its two parameters exchanged
update_tournaments_swapped(tournaments, keep_id, duplicate_id) ==
    { IF t.course_id = keep_id THEN [t EXCEPT !.course_id = duplicate_id] ELSE t :
      t \in tournaments }

\* UPDATE tournaments_enhanced SET course_id = keep_id WHERE course_id = duplicate_id
update_tournaments(tournaments, keep_id, duplicate_id) ==
    { IF t.course_id = duplicate_id THEN [t EXCEPT !.course_id = keep_id] ELSE t :
      t \in tournaments }

\* the loop issuing no UPDATE
update_loop_no_update(tournaments, keep_id, duplicate_ids, i) == tournaments

RECURSIVE update_loop(_, _, _, _)
update_loop(tournaments, keep_id, duplicate_ids, i) ==
    IF i > Len(duplicate_ids) THEN tournaments
    ELSE update_loop(update_tournaments(tournaments, keep_id, duplicate_ids[i]),
                     keep_id, duplicate_ids, i + 1)

RECURSIVE remove_value(_, _)
remove_value(list, v) ==
    IF list = <<>> THEN <<>>
    ELSE IF Head(list) = v THEN remove_value(Tail(list), v)
    ELSE <<Head(list)>> \o remove_value(Tail(list), v)

\* the DELETE removing only the first duplicate of the group
fix_group_first_only(state, g) ==
    LET ids == split_sep(g.all_ids, <<",">>)
        all_id_list == [i \in 1..Len(ids) |-> int(ids[i])]
        duplicate_ids == remove_value(all_id_list, g.keep_id)
    IN [courses |-> { c \in state.courses : c.course_id # duplicate_ids[1] },
        tournaments |-> update_loop(state.tournaments, g.keep_id, duplicate_ids, 1)]

\* the DELETE removing every row of the group, the kept one included
fix_group_all_ids(state, g) ==
    LET ids == split_sep(g.all_ids, <<",">>)
        all_id_list == [i \in 1..Len(ids) |-> int(ids[i])]
        duplicate_ids == remove_value(all_id_list, g.keep_id)
    IN [courses |-> { c \in state.courses :
                        \A i \in 1..Len(all_id_list) : c.course_id # all_id_list[i] },
        tournaments |-> update_loop(state.tournaments, g.keep_id, duplicate_ids, 1)]

\* one iteration of the loop over duplicate_groups
fix_group(state, g) ==
    LET ids == split_sep(g.all_ids, <<",">>)
        all_id_list == [i \in 1..Len(ids) |-> int(ids[i])]
        duplicate_ids == remove_value(all_id_list, g.keep_id)
    IN [courses |-> { c \in state.courses :
                        \A i \in 1..Len(duplicate_ids) : c.course_id # duplicate_ids[i] },
        tournaments |-> update_loop(state.tournaments, g.keep_id, duplicate_ids, 1)]

RECURSIVE fix_loop(_, _, _, _)
\* the first n iterations of the loop
fix_loop(state, groups, i, n) ==
    IF i > n THEN state
    ELSE fix_loop(fix_group(state, groups[i]), groups, i + 1, n)

\* cursor.fetchall(): the groups, one row per (course_name, location)
fetchall(groups) == in_order(groups, "keep_id")

\* the work of the try block up to conn.commit()
fix_course_duplicates(courses, tournaments) ==
    LET groups == fetchall(duplicate_groups(courses))
    IN fix_loop([courses |-> courses, tournaments |-> tournaments],
                groups, 1, Len(groups))

\* ------------------------------------------------------------ run_enhanced_etl
Empty == [players |-> {}, courses_enhanced |-> {}, tournaments_enhanced |-> {},
          tournament_results |-> {}, player_yearly_stats |-> {}]

Init ==
    /\ tournament_csv \in TournamentFiles
    /\ yearly_csv \in YearlyFiles
    /\ players = {}
    /\ courses_enhanced = {}
    /\ tournaments_enhanced = {}
    /\ tournament_results = {}
    /\ player_yearly_stats = {}
    /\ pc = "idle"
    /\ runs = 0
    /\ etl_result = "none"
    /\ hist = [op |-> "none", before |-> Empty, repeat |-> FALSE]
    /\ response = NoResponse
    /\ session = NoSession
    /\ log = <<>>
    /\ parsedQuery = NoQuery

\* load_courses called whether or not the tournament CSV was loaded
after_load_players_unconditional == "load_courses"

\* the step run_enhanced_etl calls once load_players has returned
after_load_players == IF tournament_loaded THEN "load_courses" ELSE "load_yearly_stats"

\* the step run_enhanced_etl calls once load_tournament_results has returned
after_load_tournament_results ==
    IF yearly_loaded THEN "load_yearly_stats" ELSE "create_summary_report"

\* session.rollback() keeping the pending rows of the session
rollback_keeps_pending(table, pending) == commit(table, "stat_id", pending)

\* session.rollback(): the pending rows are discarded, the committed rows stay
rollback(table, pending) == table

\* run_enhanced_etl up to the first load step: session, tables, the two CSV files;
\* with no file loaded it returns False and the finally clause closes the session
StartRun ==
    /\ pc = "idle"
    /\ runs < MaxRuns
    /\ runs' = runs + 1
    /\ hist' = [op |-> "etl", before |-> Snapshot,
                repeat |-> hist.op = "etl" /\ etl_result = "True"]
    /\ log' = <<>>
    /\ IF ~tournament_loaded /\ ~yearly_loaded
       THEN /\ pc' = "idle"
            /\ etl_result' = "False"
            /\ session' = [state |-> "closed", new |-> <<>>]
       ELSE /\ pc' = "load_players"
            /\ etl_result' = "running"
            /\ session' = [state |-> "open", new |-> <<>>]
    /\ response' = NoResponse
    /\ UNCHANGED <<files, db, parsedQuery>>

LoadPlayers ==
    /\ pc = "load_players"
    /\ \E names \in Orderings(all_players) : players' = load_players(players, names)
    /\ log' = Append(log, "load_players")
    /\ pc' = after_load_players
    /\ UNCHANGED <<files, courses_enhanced, tournaments_enhanced, tournament_results,
                   player_yearly_stats, runs, etl_result, hist, response, session,
                   parsedQuery>>

LoadCourses ==
    /\ pc = "load_courses"
    /\ courses_enhanced' = load_courses(courses_enhanced, df_tournament)
    /\ log' = Append(log, "load_courses")
    /\ pc' = "load_tournaments"
    /\ UNCHANGED <<files, players, tournaments_enhanced, tournament_results,
                   player_yearly_stats, runs, etl_result, hist, response, session,
                   parsedQuery>>

LoadTournaments ==
    /\ pc = "load_tournaments"
    /\ tournaments_enhanced' =
           load_tournaments(tournaments_enhanced, courses_enhanced, df_tournament)
    /\ log' = Append(log, "load_tournaments")
    /\ pc' = "load_tournament_results"
    /\ UNCHANGED <<files, players, courses_enhanced, tournament_results,
                   player_yearly_stats, runs, etl_result, hist, response, session,
                   parsedQuery>>

LoadTournamentResults ==
    /\ pc = "load_tournament_results"
    /\ tournament_results' =
           load_tournament_results(tournament_results, tournaments_enhanced, players,
                                   df_tournament)
    /\ log' = Append(log, "load_tournament_results")
    /\ pc' = after_load_tournament_results
    /\ UNCHANGED <<files, players, courses_enhanced, tournaments_enhanced,
                   player_yearly_stats, runs, etl_result, hist, response, session,
                   parsedQuery>>

\* a raise leaves the rows added so far pending in the session and is caught by
\* run_enhanced_etl
LoadYearlyStats ==
    /\ pc = "load_yearly_stats"
    /\ LET r == yearly_loop(player_yearly_stats, players, df_yearly, 1, <<>>)
       IN IF r.raised
          THEN /\ player_yearly_stats' = player_yearly_stats
               /\ session' = [session EXCEPT !.new = r.pending]
               /\ log' = log
               /\ pc' = "except"
          ELSE /\ player_yearly_stats' = commit(player_yearly_stats, "stat_id", r.pending)
               /\ session' = session
               /\ log' = Append(log, "load_yearly_stats")
               /\ pc' = "create_summary_report"
    /\ UNCHANGED <<files, players, courses_enhanced, tournaments_enhanced,
                   tournament_results, runs, etl_result, hist, response, parsedQuery>>

\* except Exception: session.rollback(), return False; finally: session.close()
ExceptRollback ==
    /\ pc = "except"
    /\ player_yearly_stats' = rollback(player_yearly_stats, session.new)
    /\ session' = [state |-> "closed", new |-> <<>>]
    /\ pc' = "idle"
    /\ etl_result' = "False"
    /\ UNCHANGED <<files, players, courses_enhanced, tournaments_enhanced,
                   tournament_results, runs, hist, response, log, parsedQuery>>

\* create_summary_report and return True; finally: session.close()
CreateSummaryReport ==
    /\ pc = "create_summary_report"
    /\ pc' = "idle"
    /\ etl_result' = "True"
    /\ session' = [state |-> "closed", new |-> <<>>]
    /\ UNCHANGED <<files, db, runs, hist, response, log, parsedQuery>>

\* ------------------------------------------------------------ the fix script
\* fix_course_duplicates, every statement succeeding: conn.commit()
FixCourseDuplicates ==
    /\ pc = "idle"
    /\ LET fixed == fix_course_duplicates(courses_enhanced, tournaments_enhanced)
       IN /\ courses_enhanced' = fixed.courses
          /\ tournaments_enhanced' = fixed.tournaments
    /\ hist' = [op |-> "fix", before |-> Snapshot,
                repeat |-> hist.op = "fix"
                           /\ hist.before.courses_enhanced # courses_enhanced]
    /\ response' = NoResponse
    /\ UNCHANGED <<files, players, tournament_results, player_yearly_stats, pc, runs,
                   etl_result, session, log, parsedQuery>>

\* conn.rollback() leaving the statements of the open transaction in place
conn_rollback_keeps_work(committed, working) == working

\* conn.rollback(): the database as of the last commit
conn_rollback(committed, working) == committed

\* fix_course_duplicates, a statement raising (the database is locked): either
\* before conn.commit(), once n groups were merged in the open transaction, or
\* after it, in the statements that count what remains; except: conn.rollback()
FixRaises ==
    /\ pc = "idle"
    /\ LET start == [courses |-> courses_enhanced, tournaments |-> tournaments_enhanced]
           groups == fetchall(duplicate_groups(courses_enhanced))
       IN \E n \in 0..Len(groups), committed \in BOOLEAN :
             LET working == fix_loop(start, groups, 1, n)
                 after == conn_rollback(IF committed THEN working ELSE start, working)
             IN /\ committed => n = Len(groups)
                /\ courses_enhanced' = after.courses
                /\ tournaments_enhanced' = after.tournaments
                /\ hist' = [op |-> "fix_raised", before |-> Snapshot, repeat |-> FALSE,
                            merged |-> n, committed |-> committed]
    /\ response' = NoResponse
    /\ UNCHANGED <<files, players, tournament_results, player_yearly_stats, pc, runs,
                   etl_result, session, log, parsedQuery>>

Next ==
    \/ StartRun
    \/ LoadPlayers
    \/ LoadCourses
    \/ LoadTournaments
    \/ LoadTournamentResults
    \/ LoadYearlyStats
    \/ ExceptRollback
    \/ CreateSummaryReport
    \/ FixCourseDuplicates

Spec == Init /\ [][Next]_vars

\* ------------------------------------------------------------ the fix script on any database
CourseB == <<"B">>
LocationX == <<"X">>

CourseValues ==
    { <<CourseA, <<>>>>, <<CourseA, LocationX>>, <<CourseA, NaN>>, <<CourseB, LocationX>> }

Absent == <<>>

\* tables courses_enhanced with keys in 1..MaxCourses
CourseTables ==
    { { [course_id |-> i, course_name |-> f[i][1], location |-> f[i][2], total_par |-> 72] :
        i \in {i \in 1..MaxCourses : f[i] # Absent} } :
      f \in [1..MaxCourses -> CourseValues \cup {Absent}] }

\* tables tournaments_enhanced with keys 1..k, foreign keys not enforced (SQLite)
TournamentTables ==
    { { [tournament_id |-> i, external_tournament_id |-> str(i),
         tournament_name |-> NameM, course_id |-> f[i], tournament_date |-> Date21,
         purse_millions |-> 7, season |-> 21, has_cut |-> TRUE] : i \in DOMAIN f } :
      f \in UNION { [1..k -> 1..MaxCourses \cup {NoInt}] : k \in 0..MaxTournaments } }

InitFix ==
    /\ tournament_csv = Missing
    /\ yearly_csv = Missing
    /\ players = {}
    /\ courses_enhanced \in CourseTables
    /\ tournaments_enhanced \in TournamentTables
    /\ tournament_results = {}
    /\ player_yearly_stats = {}
    /\ pc = "idle"
    /\ runs = 0
    /\ etl_result = "none"
    /\ hist = [op |-> "none", before |-> Empty, repeat |-> FALSE]
    /\ response = NoResponse
    /\ session = NoSession
    /\ log = <<>>
    /\ parsedQuery = NoQuery

\* ------------------------------------------------------------ the fix script run as a program
\* str.lower()
str_lower(s) == [i \in 1..Len(s) |-> lower(s[i])]

\* str.strip()
strip(s) ==
    LET kept == {i \in 1..Len(s) : s[i] # " "}
    IN IF kept = {} THEN <<>> ELSE SubSeq(s, Min(kept), Max(kept))

\* the duplicates analyze_course_duplicates returns; it only reads the database
analyze_course_duplicates(courses) == fetchall(duplicate_groups(courses))

\* the script fixing whenever duplicates were found, whatever the answer
main_without_confirmation(state, answer) ==
    LET duplicates == analyze_course_duplicates(state.courses)
    IN IF duplicates # <<>>
       THEN fix_course_duplicates(state.courses, state.tournaments)
       ELSE state

\* the script: analyze, ask when duplicates were found, fix on the answer 'y'
\* (lower-cased and stripped), verify_fix only reads
main(state, answer) ==
    LET duplicates == analyze_course_duplicates(state.courses)
        response_text == strip(str_lower(answer))
    IN IF duplicates # <<>> /\ response_text = <<"y">>
       THEN fix_course_duplicates(state.courses, state.tournaments)
       ELSE state

\* what the user can type at the prompt
Answers == { <<"y">>, <<" ", "Y", " ">>, <<"n">> }

\* python fix_duplicate_courses.py, every statement succeeding
FixScript ==
    /\ pc = "idle"
    /\ \E answer \in Answers :
          LET after == main([courses |-> courses_enhanced,
                             tournaments |-> tournaments_enhanced], answer)
          IN /\ courses_enhanced' = after.courses
             /\ tournaments_enhanced' = after.tournaments
             /\ hist' = [op |-> "main", before |-> Snapshot, repeat |-> FALSE,
                         answer |-> answer]
    /\ response' = NoResponse
    /\ UNCHANGED <<files, players, tournament_results, player_yearly_stats, pc, runs,
                   etl_result, session, log, parsedQuery>>

NextFix ==
    \/ FixCourseDuplicates
    \/ FixRaises

SpecFix == InitFix /\ [][NextFix]_vars

\* the script run as a program on any database
NextScript == FixScript

SpecScript == InitFix /\ [][NextScript]_vars

\* ------------------------------------------------------------ properties
SameCourse(c, d) == c.course_name = d.course_name /\ c.location = d.location

\* two rows of a courses table share (course_name, location)
HasDuplicateCourses(courses) ==
    \E c, d \in courses : c.course_id # d.course_id /\ SameCourse(c, d)

\* the smallest course_id among the rows sharing c's (course_name, location)
SmallestId(courses, c) == Min({d.course_id : d \in {d \in courses : SameCourse(c, d)}})

\* a run of run_enhanced_etl has returned True
RunCompleted == pc = "idle" /\ hist.op = "etl" /\ etl_result = "True"

\* C1: a second ETL run on the same CSV files, against the database the first
\* run produced, adds no row to any of the five tables.
C1_EtlIdempotent ==
    (RunCompleted /\ hist.repeat) =>
        /\ Cardinality(players) = Cardinality(hist.before.players)
        /\ Cardinality(courses_enhanced) = Cardinality(hist.before.courses_enhanced)
        /\ Cardinality(tournaments_enhanced) = Cardinality(hist.before.tournaments_enhanced)
        /\ Cardinality(tournament_results) = Cardinality(hist.before.tournament_results)
        /\ Cardinality(player_yearly_stats) = Cardinality(hist.before.player_yearly_stats)

\* C2: after any sequence of ETL runs no two rows of players have the same
\* (first_name, last_name).
C2_NoDuplicatePlayers ==
    pc = "idle" =>
        \A p, q \in players :
            (p.first_name = q.first_name /\ p.last_name = q.last_name)
                => p.player_id = q.player_id

\* C3: when fix_course_duplicates completes without error, no two remaining rows
\* of courses_enhanced have the same (course_name, location).
C3_NoDuplicateCoursesAfterFix ==
    hist.op = "fix" => ~HasDuplicateCourses(courses_enhanced)

C3_Witness ==
    /\ hist.op = "fix"
    /\ \E c, d, e \in hist.before.courses_enhanced :
          /\ c.course_id < d.course_id /\ d.course_id < e.course_id
          /\ SameCourse(c, d) /\ SameCourse(d, e)

\* C4: after load_courses has run once on an empty courses_enhanced table there
\* is at most one row per (course_name, location).
C4_LoadCoursesNoDuplicates ==
    (hist.op = "etl" /\ hist.before.courses_enhanced = {} /\ pc = "load_tournaments")
        => ~HasDuplicateCourses(courses_enhanced)

\* C5: for every group of courses sharing (course_name, location) the fix keeps
\* the row with the smallest course_id, deletes the others, and every tournament
\* that referenced a deleted course_id references the kept one afterwards.
C5_FixRepointsForeignKeys ==
    hist.op = "fix" =>
        \A c \in hist.before.courses_enhanced :
            LET keep_id == SmallestId(hist.before.courses_enhanced, c)
            IN /\ (c.course_id = keep_id) => (c \in courses_enhanced)
               /\ (c.course_id # keep_id) =>
                      /\ \A d \in courses_enhanced : d.course_id # c.course_id
                      /\ \A t \in hist.before.tournaments_enhanced :
                            (t.course_id = c.course_id) =>
                                ([t EXCEPT !.course_id = keep_id] \in tournaments_enhanced)

C5_Witness ==
    /\ hist.op = "fix"
    /\ \E c \in hist.before.courses_enhanced, t \in hist.before.tournaments_enhanced :
          /\ t.course_id = c.course_id
          /\ c.course_id # SmallestId(hist.before.courses_enhanced, c)

\* C6: after any sequence of ETL runs and fix runs every tournament whose
\* course_id is not NULL references an existing course.
C6_TournamentsHaveValidCourses ==
    \A t \in tournaments_enhanced :
        t.course_id # NoInt => \E c \in courses_enhanced : c.course_id = t.course_id

C6_Witness ==
    /\ hist.op = "fix"
    /\ courses_enhanced # hist.before.courses_enhanced
    /\ \E t \in tournaments_enhanced : t.course_id # NoInt

\* C7: after any sequence of ETL runs every tournament result has a player_id
\* that exists in players and a tournament_id that exists in tournaments_enhanced.
C7_ResultsHaveValidPlayersAndTournaments ==
    \A r \in tournament_results :
        /\ \E p \in players : p.player_id = r.player_id
        /\ \E t \in tournaments_enhanced : t.tournament_id = r.tournament_id

C7_Witness ==
    /\ RunCompleted
    /\ hist.repeat
    /\ Cardinality(tournament_results) > 1

\* C8: after run_enhanced_etl on an empty database the number of
\* tournament_results rows equals the number of rows of the tournament CSV.
C8_ResultsCountMatchesCsv ==
    (RunCompleted /\ hist.before = Empty /\ tournament_loaded)
        => Cardinality(tournament_results) = Len(df_tournament)

\* ------------------------------------------------------------ the API (src/api/app.py)
\* .limit(50) / LIMIT 50 of /api/players and /api/tournaments
PageLimit == 50

RECURSIVE like(_, _)
\* SQLite's LIKE: % matches any text, _ any one character, letters without case
like(text, pattern) ==
    IF pattern = <<>> THEN text = <<>>
    ELSE IF Head(pattern) = "%"
         THEN like(text, Tail(pattern)) \/ (text # <<>> /\ like(Tail(text), pattern))
         ELSE /\ text # <<>>
              /\ (Head(pattern) = "_" \/ lower(Head(text)) = lower(Head(pattern)))
              /\ like(Tail(text), Tail(pattern))

\* value LIKE pattern is not true of a NULL value
sql_like(value, pattern) == value # NaN /\ like(value, pattern)

\* f"%{value}%"
search_pattern(value) == <<"%">> \o value \o <<"%">>

\* request.args.get(name) of an absent parameter is None; None and '' are falsy
NoArg == NaN
given(arg) == arg # NoArg /\ arg # <<>>

\* the joined row of one tournament result (JOIN players, JOIN tournaments_enhanced,
\* LEFT JOIN courses_enhanced); the set is empty when an inner join finds no partner
joined(tr) ==
    { [result_id |-> tr.result_id,
       tournament_id |-> tr.tournament_id,
       first_name |-> p.first_name,
       last_name |-> p.last_name,
       player_name |-> p.first_name \o <<" ">> \o p.last_name,
       tournament_name |-> t.tournament_name,
       tournament_date |-> t.tournament_date,
       season |-> t.season,
       course_name |-> IF \E c \in courses_enhanced : c.course_id = t.course_id
                       THEN (CHOOSE c \in courses_enhanced : c.course_id = t.course_id).course_name
                       ELSE NaN,
       total_strokes |-> tr.total_strokes,
       made_cut |-> tr.made_cut] :
      p \in {p \in players : p.player_id = tr.player_id},
      t \in {t \in tournaments_enhanced : t.tournament_id = tr.tournament_id} }

\* the AND clauses the player, tournament and year parameters add to the query
filters(row, args) ==
    /\ given(args.player) =>
          \/ sql_like(row.first_name, search_pattern(args.player))
          \/ sql_like(row.last_name, search_pattern(args.player))
          \/ sql_like(row.player_name, search_pattern(args.player))
    /\ given(args.tournament) =>
          sql_like(row.tournament_name, search_pattern(args.tournament))
    /\ given(args.year) =>
          \/ sql_like(row.tournament_date, search_pattern(args.year))
          \/ row.season = int(args.year)

\* the regular query with WHERE tr.made_cut IS NOT NULL
regular_rows_any_cut(args) ==
    { row \in UNION { joined(tr) : tr \in {tr \in tournament_results :
                                              tr.made_cut # NoInt} } :
        filters(row, args) }

\* the rows of the regular query: WHERE tr.made_cut = 1 AND the filters
regular_rows(args) ==
    { row \in UNION { joined(tr) : tr \in {tr \in tournament_results : tr.made_cut = 1} } :
        filters(row, args) }

\* CTE tournament_winners: MIN(total_strokes) of the results that made the cut
winning_score(tournament_id) ==
    Min({ tr.total_strokes : tr \in { tr \in tournament_results :
            /\ tr.tournament_id = tournament_id
            /\ tr.made_cut = 1
            /\ tr.total_strokes # NoInt } })

\* CTE winner_details before the ROW_NUMBER() = 1 selection
winner_details(args) ==
    { row \in UNION { joined(tr) : tr \in { tr \in tournament_results :
                        /\ tr.made_cut = 1
                        /\ tr.total_strokes # NoInt
                        /\ tr.total_strokes = winning_score(tr.tournament_id) } } :
        filters(row, args) }

\* the selections rank_in_tournament = 1 can make: one row per tournament
winner_rows(args) ==
    { R \in SUBSET winner_details(args) :
        /\ \A row \in winner_details(args) :
              \E r \in R : r.tournament_id = row.tournament_id
        /\ \A r, q \in R : r.tournament_id = q.tournament_id => r = q }

\* the sort key of ORDER BY tournament_date DESC: NULL sorts last
date_rank(d) == IF d = NaN THEN NoInt ELSE int(d)

\* q is sorted strictly before r
sorts_before(q, r, args) ==
    \/ date_rank(q.tournament_date) > date_rank(r.tournament_date)
    \/ /\ args.position # <<"1">>
       /\ date_rank(q.tournament_date) = date_rank(r.tournament_date)
       /\ q.total_strokes < r.total_strokes

\* the row sets ORDER BY ... LIMIT limit can return from rows
limited(rows, args) ==
    { R \in SUBSET rows :
        /\ Cardinality(R) = IF Cardinality(rows) < args.limit THEN Cardinality(rows)
                            ELSE args.limit
        /\ \A r \in R : \A q \in rows \ R : ~sorts_before(q, r, args) }

\* result_dict of one returned row
result_dict(row) ==
    [result_id |-> row.result_id, player_name |-> row.player_name,
     tournament_name |-> row.tournament_name, tournament_date |-> row.tournament_date,
     season |-> row.season, course_name |-> row.course_name,
     total_strokes |-> row.total_strokes,
     made_cut |-> IF row.made_cut # NoInt THEN row.made_cut # 0 ELSE NoInt]

\* the body counting the returned rows instead of the table
results_body_filtered_total(results_data, args) ==
    [results |-> results_data,
     count |-> Cardinality(results_data),
     total_results |-> Cardinality(results_data),
     filters |-> args]

\* jsonify({"results": ..., "count": ..., "total_results": total_count, "filters": ...})
results_body(results_data, args) ==
    [results |-> results_data,
     count |-> Cardinality(results_data),
     total_results |-> Cardinality(tournament_results),
     filters |-> args]

\* the responses /api/tournament-results can give to a request
get_tournament_results(db_imported, args) ==
    IF ~db_imported
    THEN {[endpoint |-> "tournament-results", args |-> args, status |-> 500,
           body |-> [results |-> {}, error |-> "Database modules not available"]]}
    ELSE IF given(args.year) /\ ~int_ok(args.year)
    THEN {[endpoint |-> "tournament-results", args |-> args, status |-> 500,
           body |-> [results |-> {}, error |-> "ValueError"]]}
    ELSE { [endpoint |-> "tournament-results", args |-> args, status |-> 200,
            body |-> results_body({result_dict(row) : row \in R}, args)] :
           R \in UNION { limited(rows, args) :
                         rows \in IF args.position = <<"1">> THEN winner_rows(args)
                                  ELSE {regular_rows(args)} } }

\* the row sets an unordered query with LIMIT PageLimit can return
page(table) ==
    IF Cardinality(table) <= PageLimit THEN {table}
    ELSE { R \in SUBSET table : Cardinality(R) = PageLimit }

\* player_dict of one row of players
player_dict(player) ==
    [player_id |-> player.player_id, first_name |-> player.first_name,
     last_name |-> player.last_name,
     full_name |-> player.first_name \o <<" ">> \o player.last_name]

\* the responses of /api/players
get_players(db_imported) ==
    IF ~db_imported
    THEN {[endpoint |-> "players", status |-> 500,
           body |-> [players |-> {}, error |-> "Database modules not available"]]}
    ELSE { [endpoint |-> "players", status |-> 200,
            body |-> [players |-> {player_dict(player) : player \in players_data},
                      count |-> Cardinality(players_data),
                      total_players |-> Cardinality(players)]] :
           players_data \in page(players) }

\* tournament_dict of one row of tournaments_enhanced LEFT JOIN courses_enhanced
tournament_dict(t) ==
    LET c == {c \in courses_enhanced : c.course_id = t.course_id}
    IN [tournament_id |-> t.tournament_id, tournament_name |-> t.tournament_name,
        tournament_date |-> t.tournament_date, purse_millions |-> t.purse_millions,
        season |-> t.season, has_cut |-> t.has_cut,
        course_name |-> IF c # {} THEN (CHOOSE d \in c : TRUE).course_name ELSE NaN,
        course_location |-> IF c # {} THEN (CHOOSE d \in c : TRUE).location ELSE NaN]

\* the responses of /api/tournaments
get_tournaments(db_imported) ==
    IF ~db_imported
    THEN {[endpoint |-> "tournaments", status |-> 500,
           body |-> [tournaments |-> {}, error |-> "Database modules not available"]]}
    ELSE { [endpoint |-> "tournaments", status |-> 200,
            body |-> [tournaments |-> {tournament_dict(t) : t \in tournaments_data},
                      count |-> Cardinality(tournaments_data),
                      total_tournaments |-> Cardinality(tournaments_enhanced)]] :
           tournaments_data \in page(tournaments_enhanced) }

\* /api/health answering 500 when an enhanced table cannot be queried
health_check_no_fallback(db_imported, players_ok, enhanced_ok) ==
    IF ~db_imported \/ ~players_ok \/ ~enhanced_ok
    THEN [endpoint |-> "health",
          env |-> [db_imported |-> db_imported, players_ok |-> players_ok,
                   enhanced_ok |-> enhanced_ok],
          status |-> 500,
          body |-> [status |-> "unhealthy", database_connected |-> FALSE]]
    ELSE [endpoint |-> "health",
          env |-> [db_imported |-> db_imported, players_ok |-> players_ok,
                   enhanced_ok |-> enhanced_ok],
          status |-> 200,
          body |-> [status |-> "healthy", database_connected |-> TRUE,
                    data_summary |->
                        [players |-> Cardinality(players),
                         tournaments |-> Cardinality(tournaments_enhanced),
                         courses |-> Cardinality(courses_enhanced),
                         tournament_results |-> Cardinality(tournament_results),
                         yearly_stats |-> Cardinality(player_yearly_stats)]]]

\* the response of /api/health: db_imported says whether db_manager was imported,
\* players_ok whether session.query(Player).count() returns, enhanced_ok whether
\* the four COUNT(*) statements on the enhanced tables all return
health_check(db_imported, players_ok, enhanced_ok) ==
    IF ~db_imported \/ ~players_ok
    THEN [endpoint |-> "health",
          env |-> [db_imported |-> db_imported, players_ok |-> players_ok,
                   enhanced_ok |-> enhanced_ok],
          status |-> 500,
          body |-> [status |-> "unhealthy", database_connected |-> FALSE]]
    ELSE [endpoint |-> "health",
          env |-> [db_imported |-> db_imported, players_ok |-> players_ok,
                   enhanced_ok |-> enhanced_ok],
          status |-> 200,
          body |-> [status |-> "healthy", database_connected |-> TRUE,
                    data_summary |->
                        [players |-> Cardinality(players),
                         tournaments |-> IF enhanced_ok
                                         THEN Cardinality(tournaments_enhanced) ELSE 0,
                         courses |-> IF enhanced_ok
                                     THEN Cardinality(courses_enhanced) ELSE 0,
                         tournament_results |-> IF enhanced_ok
                                                THEN Cardinality(tournament_results) ELSE 0,
                         yearly_stats |-> IF enhanced_ok
                                          THEN Cardinality(player_yearly_stats) ELSE 0]]]

\* ------------------------------------------------------------ API requests
ApiArgs ==
    [limit : {1, PageLimit},
     player : {NoArg, <<"c">>, <<"B">>},
     tournament : {NoArg, <<"m">>},
     year : {NoArg, <<"2", "1">>, <<"2", "0">>, <<"x">>},
     position : {NoArg, <<"1">>}]

HealthCheck ==
    /\ pc = "idle"
    /\ response = NoResponse
    /\ \E db_imported, players_ok, enhanced_ok \in BOOLEAN :
          response' = health_check(db_imported, players_ok, enhanced_ok)
    /\ UNCHANGED <<files, db, pc, runs, etl_result, hist, session, log, parsedQuery>>

GetPlayers ==
    /\ pc = "idle"
    /\ response = NoResponse
    /\ \E db_imported \in BOOLEAN : response' \in get_players(db_imported)
    /\ UNCHANGED <<files, db, pc, runs, etl_result, hist, session, log, parsedQuery>>

GetTournaments ==
    /\ pc = "idle"
    /\ response = NoResponse
    /\ \E db_imported \in BOOLEAN : response' \in get_tournaments(db_imported)
    /\ UNCHANGED <<files, db, pc, runs, etl_result, hist, session, log, parsedQuery>>

GetTournamentResults ==
    /\ pc = "idle"
    /\ response = NoResponse
    /\ \E db_imported \in BOOLEAN, args \in ApiArgs :
          response' \in get_tournament_results(db_imported, args)
    /\ UNCHANGED <<files, db, pc, runs, etl_result, hist, session, log, parsedQuery>>

\* the response is sent to the client and the handler returns
SendResponse ==
    /\ response # NoResponse
    /\ response' = NoResponse
    /\ UNCHANGED <<files, db, pc, runs, etl_result, hist, session, log, parsedQuery>>

\* rows of the tournament CSV served through the API
ApiRows ==
    { TRow(1, NameM, CourseAX, 72, Date21, 21, PlayerAB, 1, 70),
      TRow(1, NameM, CourseAX, 72, Date21, 21, PlayerC, 1, 70),
      TRow(1, NameM, CourseAX, 71, Date21, 21, PlayerC, 0, 75),
      TRow(2, NameN, CourseAY, 72, NaN, 20, PlayerSC, 1, 68),
      TRow(2, NameN, NaN, NoInt, NaN, 20, PlayerAB, NoInt, 69) }

InitApi ==
    /\ tournament_csv \in {File(rows) : rows \in SeqsUpTo(ApiRows, MaxRows)}
    /\ yearly_csv = File(<<YRow(PlayerAB, 18)>>)
    /\ players = {}
    /\ courses_enhanced = {}
    /\ tournaments_enhanced = {}
    /\ tournament_results = {}
    /\ player_yearly_stats = {}
    /\ pc = "idle"
    /\ runs = 0
    /\ etl_result = "none"
    /\ hist = [op |-> "none", before |-> Empty, repeat |-> FALSE]
    /\ response = NoResponse
    /\ session = NoSession
    /\ log = <<>>
    /\ parsedQuery = NoQuery

NextApi ==
    \/ StartRun
    \/ LoadPlayers
    \/ LoadCourses
    \/ LoadTournaments
    \/ LoadTournamentResults
    \/ LoadYearlyStats
    \/ CreateSummaryReport
    \/ HealthCheck
    \/ GetPlayers
    \/ GetTournaments
    \/ GetTournamentResults
    \/ SendResponse

SpecApi == InitApi /\ [][NextApi]_vars

\* C9: the total_players, total_tournaments and total_results fields the API
\* returns equal the row counts of players, tournaments_enhanced and
\* tournament_results, whatever the limit and the filters.
C9_ApiTotalsMatchDatabase ==
    /\ (response.endpoint = "players" /\ response.status = 200)
          => response.body.total_players = Cardinality(players)
    /\ (response.endpoint = "tournaments" /\ response.status = 200)
          => response.body.total_tournaments = Cardinality(tournaments_enhanced)
    /\ (response.endpoint = "tournament-results" /\ response.status = 200)
          => response.body.total_results = Cardinality(tournament_results)

C9_Witness ==
    /\ response.endpoint = "tournament-results"
    /\ response.status = 200
    /\ given(response.args.player)
    /\ response.args.limit = 1
    /\ response.body.count = 1
    /\ response.body.total_results > 1

\* C10: /api/health answers 200 with database_connected = true whenever the
\* players table can be counted (the enhanced counts being 0 when those tables
\* cannot be queried), and 500 with database_connected = false when the database
\* modules were not imported or the players count raises.
C10_HealthReportsDatabaseState ==
    response.endpoint = "health" =>
        /\ (response.env.db_imported /\ response.env.players_ok) =>
              /\ response.status = 200
              /\ response.body.database_connected = TRUE
              /\ response.body.data_summary.players = Cardinality(players)
              /\ ~response.env.enhanced_ok =>
                    /\ response.body.data_summary.tournaments = 0
                    /\ response.body.data_summary.courses = 0
                    /\ response.body.data_summary.tournament_results = 0
                    /\ response.body.data_summary.yearly_stats = 0
        /\ (~response.env.db_imported \/ ~response.env.players_ok) =>
              /\ response.status = 500
              /\ response.body.database_connected = FALSE

C10_Witness ==
    /\ response.endpoint = "health"
    /\ response.status = 200
    /\ ~response.env.enhanced_ok
    /\ Cardinality(tournament_results) > 0

\* ------------------------------------------------------------ the front end
\* JavaScript's null
null == <<"null">>

\* String.prototype.trim()
trim(s) ==
    LET kept == {i \in 1..Len(s) : s[i] # " "}
    IN IF kept = {} THEN <<>> ELSE SubSeq(s, Min(kept), Max(kept))

\* String.prototype.toLowerCase()
toLowerCase(s) == [i \in 1..Len(s) |-> lower(s[i])]

\* String.prototype.includes(sub)
includes(s, sub) == Contains(s, sub)

\* \w of a regular expression
word_char(ch) ==
    \/ is_digit(ch)
    \/ ch = "_"
    \/ \E k \in 1..Len(UpperCase) : ch = UpperCase[k] \/ ch = LowerCase[k]

\* /\b(19|20)\d{2}\b/ matches at place i of the query
year_at(query, i) ==
    /\ i + 3 <= Len(query)
    /\ SubSeq(query, i, i + 1) \in {<<"1", "9">>, <<"2", "0">>}
    /\ is_digit(query[i + 2])
    /\ is_digit(query[i + 3])
    /\ i > 1 => ~word_char(query[i - 1])
    /\ i + 4 <= Len(query) => ~word_char(query[i + 4])

\* query.match(/\b(19|20)\d{2}\b/): yearMatch[0] of the leftmost match, or null
year_match(query) ==
    LET places == {i \in 1..Len(query) : year_at(query, i)}
    IN IF places = {} THEN null ELSE SubSeq(query, Min(places), Min(places) + 3)

\* query.match(/(a|b|...)/i): group 1 of the leftmost match, taking the first
\* alternative that matches there, with the letter case of the query; or null
match_i(query, alternatives) ==
    LET lowerQuery == toLowerCase(query)
        at(i) == {k \in 1..Len(alternatives) : StartsAt(lowerQuery, alternatives[k], i)}
        places == {i \in 1..Len(query) : at(i) # {}}
    IN IF places = {} THEN null
       ELSE SubSeq(query, Min(places),
                   Min(places) + Len(alternatives[Min(at(Min(places)))]) - 1)

\* an if / else-if chain of includes() tests: the value of the first test that holds
first_included(lowerQuery, tests) ==
    LET holds == {k \in 1..Len(tests) : includes(lowerQuery, tests[k][1])}
    IN IF holds = {} THEN null ELSE tests[Min(holds)][2]

\* the tests of parseTournamentWinner, each with the tournamentMatch it assigns
TournamentTests ==
    << <<<<"m", "a", "s", "t", "e", "r", "s">>, <<"m", "a", "s", "t", "e", "r", "s">>>>,
       <<<<"m", "e", "m", "o", "r", "i", "a", "l">>, <<"m", "e", "m", "o", "r", "i", "a", "l">>>>,
       <<<<"u", ".", "s", ".", " ", "o", "p", "e", "n">>, <<"u", ".", "s", ".", " ", "o", "p", "e", "n">>>>,
       <<<<"u", "s", " ", "o", "p", "e", "n">>, <<"u", ".", "s", ".", " ", "o", "p", "e", "n">>>>,
       <<<<"p", "g", "a", " ", "c", "h", "a", "m", "p", "i", "o", "n", "s", "h", "i", "p">>, <<"p", "g", "a", " ", "c", "h", "a", "m", "p", "i", "o", "n", "s", "h", "i", "p">>>>,
       <<<<"o", "p", "e", "n", " ", "c", "h", "a", "m", "p", "i", "o", "n", "s", "h", "i", "p">>, <<"o", "p", "e", "n", " ", "c", "h", "a", "m", "p", "i", "o", "n", "s", "h", "i", "p">>>>,
       <<<<"b", "r", "i", "t", "i", "s", "h", " ", "o", "p", "e", "n">>, <<"o", "p", "e", "n", " ", "c", "h", "a", "m", "p", "i", "o", "n", "s", "h", "i", "p">>>>,
       <<<<"p", "l", "a", "y", "e", "r", "s", " ", "c", "h", "a", "m", "p", "i", "o", "n", "s", "h", "i", "p">>, <<"p", "l", "a", "y", "e", "r", "s">>>>,
       <<<<"p", "l", "a", "y", "e", "r", "s">>, <<"p", "l", "a", "y", "e", "r", "s">>>>,
       <<<<"a", "r", "n", "o", "l", "d", " ", "p", "a", "l", "m", "e", "r">>, <<"a", "r", "n", "o", "l", "d", " ", "p", "a", "l", "m", "e", "r">>>> >>

\* the tests of parsePlayerPerformance, each with the playerMatch it assigns
PlayerTests ==
    << <<<<"t", "i", "g", "e", "r", " ", "w", "o", "o", "d", "s">>, <<"t", "i", "g", "e", "r", " ", "w", "o", "o", "d", "s">>>>,
       <<<<"j", "o", "r", "d", "a", "n", " ", "s", "p", "i", "e", "t", "h">>, <<"j", "o", "r", "d", "a", "n", " ", "s", "p", "i", "e", "t", "h">>>>,
       <<<<"r", "o", "r", "y", " ", "m", "c", "i", "l", "r", "o", "y">>, <<"r", "o", "r", "y", " ", "m", "c", "i", "l", "r", "o", "y">>>>,
       <<<<"s", "e", "r", "g", "i", "o", " ", "g", "a", "r", "c", "i", "a">>, <<"s", "e", "r", "g", "i", "o", " ", "g", "a", "r", "c", "i", "a">>>>,
       <<<<"d", "u", "s", "t", "i", "n", " ", "j", "o", "h", "n", "s", "o", "n">>, <<"d", "u", "s", "t", "i", "n", " ", "j", "o", "h", "n", "s", "o", "n">>>>,
       <<<<"p", "h", "i", "l", " ", "m", "i", "c", "k", "e", "l", "s", "o", "n">>, <<"p", "h", "i", "l", " ", "m", "i", "c", "k", "e", "l", "s", "o", "n">>>> >>

parseTournamentWinner(query) ==
    [type |-> "tournament_winner",
     tournament |-> first_included(toLowerCase(query), TournamentTests),
     year |-> year_match(query)]

parsePlayerPerformance(query) ==
    [type |-> "player_performance",
     player |-> first_included(toLowerCase(query), PlayerTests),
     year |-> year_match(query)]

\* statType and metric are read from the query as typed
parseBestWorstQuery(query) ==
    LET statType == match_i(query, <<<<"p", "u", "t", "t", "i", "n", "g">>, <<"d", "r", "i", "v", "i", "n", "g">>, <<"a", "p", "p", "r", "o", "a", "c", "h">>,
                                     <<"s", "c", "r", "a", "m", "b", "l", "i", "n", "g">>, <<"s", "c", "o", "r", "i", "n", "g">>>>)
    IN [type |-> "best_worst",
        statType |-> IF statType # null THEN statType ELSE <<"o", "v", "e", "r", "a", "l", "l">>,
        metric |-> IF includes(query, <<"b", "e", "s", "t">>) THEN "best" ELSE "worst"]

parseCourseQuery(query) ==
    [type |-> "course",
     course |-> match_i(query, <<<<"p", "e", "b", "b", "l", "e", " ", "b", "e", "a", "c", "h">>, <<"a", "u", "g", "u", "s", "t", "a">>, <<"t", "o", "r", "r", "e", "y", " ", "p", "i", "n", "e", "s">>,
                                 <<"r", "i", "v", "i", "e", "r", "a">>, <<"t", "p", "c", " ", "s", "a", "w", "g", "r", "a", "s", "s">>>>)]

parseTournamentQuery(query) ==
    [type |-> "tournament",
     tournament |-> match_i(query, <<<<"m", "e", "m", "o", "r", "i", "a", "l">>, <<"m", "a", "s", "t", "e", "r", "s">>, <<"o", "p", "e", "n">>,
                                     <<"c", "h", "a", "m", "p", "i", "o", "n", "s", "h", "i", "p">>, <<"p", "g", "a">>>>)]

\* parseNaturalLanguage testing the course rule before the best/worst rule
parseNaturalLanguage_course_first(query) ==
    LET lowerQuery == toLowerCase(query)
    IN IF \/ includes(lowerQuery, <<"w", "h", "o", " ", "w", "o", "n">>)
          \/ includes(lowerQuery, <<"w", "i", "n", "n", "e", "r">>)
          \/ includes(lowerQuery, <<"c", "h", "a", "m", "p", "i", "o", "n">>)
       THEN parseTournamentWinner(query)
       ELSE IF /\ includes(lowerQuery, <<"s", "h", "o", "w", " ", "m", "e">>)
               /\ \/ includes(lowerQuery, <<"s", "t", "a", "t", "s">>)
                  \/ includes(lowerQuery, <<"p", "e", "r", "f", "o", "r", "m", "a", "n", "c", "e">>)
                  \/ includes(lowerQuery, <<"r", "e", "s", "u", "l", "t", "s">>)
       THEN parsePlayerPerformance(query)
       ELSE IF \/ includes(lowerQuery, <<"c", "o", "u", "r", "s", "e">>)
               \/ includes(lowerQuery, <<"p", "e", "b", "b", "l", "e">>)
               \/ includes(lowerQuery, <<"a", "u", "g", "u", "s", "t", "a">>)
               \/ includes(lowerQuery, <<"t", "o", "r", "r", "e", "y">>)
       THEN parseCourseQuery(query)
       ELSE IF \/ includes(lowerQuery, <<"b", "e", "s", "t">>)
               \/ includes(lowerQuery, <<"w", "o", "r", "s", "t">>)
               \/ includes(lowerQuery, <<"t", "o", "p">>)
       THEN parseBestWorstQuery(query)
       ELSE IF \/ includes(lowerQuery, <<"t", "o", "u", "r", "n", "a", "m", "e", "n", "t">>)
               \/ includes(lowerQuery, <<"m", "a", "s", "t", "e", "r", "s">>)
               \/ includes(lowerQuery, <<"o", "p", "e", "n">>)
       THEN parseTournamentQuery(query)
       ELSE [type |-> "search", query |-> query]

\* the description field is a rendering of the other fields and is left out
parseNaturalLanguage(query) ==
    LET lowerQuery == toLowerCase(query)
    IN IF \/ includes(lowerQuery, <<"w", "h", "o", " ", "w", "o", "n">>)
          \/ includes(lowerQuery, <<"w", "i", "n", "n", "e", "r">>)
          \/ includes(lowerQuery, <<"c", "h", "a", "m", "p", "i", "o", "n">>)
       THEN parseTournamentWinner(query)
       ELSE IF /\ includes(lowerQuery, <<"s", "h", "o", "w", " ", "m", "e">>)
               /\ \/ includes(lowerQuery, <<"s", "t", "a", "t", "s">>)
                  \/ includes(lowerQuery, <<"p", "e", "r", "f", "o", "r", "m", "a", "n", "c", "e">>)
                  \/ includes(lowerQuery, <<"r", "e", "s", "u", "l", "t", "s">>)
       THEN parsePlayerPerformance(query)
       ELSE IF \/ includes(lowerQuery, <<"b", "e", "s", "t">>)
               \/ includes(lowerQuery, <<"w", "o", "r", "s", "t">>)
               \/ includes(lowerQuery, <<"t", "o", "p">>)
       THEN parseBestWorstQuery(query)
       ELSE IF \/ includes(lowerQuery, <<"c", "o", "u", "r", "s", "e">>)
               \/ includes(lowerQuery, <<"p", "e", "b", "b", "l", "e">>)
               \/ includes(lowerQuery, <<"a", "u", "g", "u", "s", "t", "a">>)
               \/ includes(lowerQuery, <<"t", "o", "r", "r", "e", "y">>)
       THEN parseCourseQuery(query)
       ELSE IF \/ includes(lowerQuery, <<"t", "o", "u", "r", "n", "a", "m", "e", "n", "t">>)
               \/ includes(lowerQuery, <<"m", "a", "s", "t", "e", "r", "s">>)
               \/ includes(lowerQuery, <<"o", "p", "e", "n">>)
       THEN parseTournamentQuery(query)
       ELSE [type |-> "search", query |-> query]

\* handleQuery up to the fetch: the text box is trimmed, an empty query returns,
\* processQuery parses the query
HandleQuery ==
    /\ parsedQuery.parsed.type = "none"
    /\ trim(parsedQuery.query) # <<>>
    /\ parsedQuery' = [query |-> parsedQuery.query,
                       parsed |-> parseNaturalLanguage(trim(parsedQuery.query))]
    /\ UNCHANGED <<files, db, pc, runs, etl_result, hist, response, session, log>>

\* ------------------------------------------------------------ queries typed into the front end
MaxPhrases == 2

Phrases ==
    { <<"w", "h", "o", " ", "w", "o", "n">>, <<"W", "i", "n", "n", "e", "r">>, <<"c", "h", "a", "m", "p", "i", "o", "n">>, <<"s", "h", "o", "w", " ", "m", "e">>, <<"s", "t", "a", "t", "s">>, <<"r", "e", "s", "u", "l", "t", "s">>,
      <<"B", "e", "s", "t">>, <<"b", "e", "s", "t">>, <<"w", "o", "r", "s", "t">>, <<"t", "o", "p">>, <<"c", "o", "u", "r", "s", "e">>, <<"A", "u", "g", "u", "s", "t", "a">>,
      <<"p", "e", "b", "b", "l", "e", " ", "b", "e", "a", "c", "h">>, <<"t", "o", "u", "r", "n", "a", "m", "e", "n", "t">>, <<"m", "a", "s", "t", "e", "r", "s">>, <<"O", "p", "e", "n">>, <<"p", "u", "t", "t", "i", "n", "g">>,
      <<"2", "0", "2", "1">>, <<"t", "i", "g", "e", "r", " ", "w", "o", "o", "d", "s">>, <<"g", "o", "l", "f">> }

\* one to MaxPhrases phrases separated by a space
Queries == { join(words) : words \in SeqsUpTo(Phrases, MaxPhrases) \ {<<>>} }

InitParse ==
    /\ tournament_csv = Missing
    /\ yearly_csv = Missing
    /\ players = {}
    /\ courses_enhanced = {}
    /\ tournaments_enhanced = {}
    /\ tournament_results = {}
    /\ player_yearly_stats = {}
    /\ pc = "idle"
    /\ runs = 0
    /\ etl_result = "none"
    /\ hist = [op |-> "none", before |-> Empty, repeat |-> FALSE]
    /\ response = NoResponse
    /\ session = NoSession
    /\ log = <<>>
    /\ parsedQuery \in {[query |-> q, parsed |-> [type |-> "none"]] : q \in Queries}

NextParse == HandleQuery

SpecParse == InitParse /\ [][NextParse]_vars

\* the rules of the parser in their order: a rule matches a text that includes
\* every word of `all` and, when `any` is not empty, one word of `any`
Rules ==
    << [type |-> "tournament_winner", all |-> {},
        any |-> {<<"w", "h", "o", " ", "w", "o", "n">>, <<"w", "i", "n", "n", "e", "r">>, <<"c", "h", "a", "m", "p", "i", "o", "n">>}],
       [type |-> "player_performance", all |-> {<<"s", "h", "o", "w", " ", "m", "e">>},
        any |-> {<<"s", "t", "a", "t", "s">>, <<"p", "e", "r", "f", "o", "r", "m", "a", "n", "c", "e">>, <<"r", "e", "s", "u", "l", "t", "s">>}],
       [type |-> "best_worst", all |-> {},
        any |-> {<<"b", "e", "s", "t">>, <<"w", "o", "r", "s", "t">>, <<"t", "o", "p">>}],
       [type |-> "course", all |-> {},
        any |-> {<<"c", "o", "u", "r", "s", "e">>, <<"p", "e", "b", "b", "l", "e">>, <<"a", "u", "g", "u", "s", "t", "a">>, <<"t", "o", "r", "r", "e", "y">>}],
       [type |-> "tournament", all |-> {},
        any |-> {<<"t", "o", "u", "r", "n", "a", "m", "e", "n", "t">>, <<"m", "a", "s", "t", "e", "r", "s">>, <<"o", "p", "e", "n">>}] >>

Matching(text) ==
    {k \in 1..Len(Rules) :
        /\ \A w \in Rules[k].all : Contains(text, w)
        /\ \E w \in Rules[k].any : Contains(text, w)}

Parsed == parsedQuery.parsed.type # "none"

getCourseInfo(parsed) ==
    [path |-> "courses", name |-> IF parsed.course # null THEN parsed.course ELSE NoArg]

\* the URL getTournamentInfo fetches: /api/tournaments, with ?name= when a
\* tournament matched
getTournamentInfo(parsed) ==
    [path |-> "tournaments",
     name |-> IF parsed.tournament # null THEN parsed.tournament ELSE NoArg]

\* course_dict of one row of courses_enhanced
course_dict(c) ==
    [course_id |-> c.course_id, course_name |-> c.course_name,
     location |-> c.location, total_par |-> c.total_par]

\* the responses of /api/courses; the handler reads no request argument
get_courses(db_imported) ==
    IF ~db_imported
    THEN {[endpoint |-> "courses", status |-> 500,
           body |-> [courses |-> {}, error |-> "Database modules not available"]]}
    ELSE { [endpoint |-> "courses", status |-> 200,
            body |-> [courses |-> {course_dict(c) : c \in courses_data},
                      count |-> Cardinality(courses_data),
                      total_courses |-> Cardinality(courses_enhanced)]] :
           courses_data \in page(courses_enhanced) }

\* Flask routes the URL by its path; the query string stays in request.args
route(url, db_imported) ==
    IF url.path = "courses" THEN get_courses(db_imported)
    ELSE get_tournaments(db_imported)

\* executeQuery of a course query: getCourseInfo fetches and the API answers
GetCourseInfo ==
    /\ pc = "idle"
    /\ response = NoResponse
    /\ parsedQuery.parsed.type = "course"
    /\ \E db_imported \in BOOLEAN :
          response' \in route(getCourseInfo(parsedQuery.parsed), db_imported)
    /\ UNCHANGED <<files, db, pc, runs, etl_result, hist, session, log, parsedQuery>>

\* executeQuery of a tournament query: getTournamentInfo fetches and the API answers
GetTournamentInfo ==
    /\ pc = "idle"
    /\ response = NoResponse
    /\ parsedQuery.parsed.type = "tournament"
    /\ \E db_imported \in BOOLEAN :
          response' \in route(getTournamentInfo(parsedQuery.parsed), db_imported)
    /\ UNCHANGED <<files, db, pc, runs, etl_result, hist, session, log, parsedQuery>>

\* rows of the tournament CSV browsed through the front end
UiRows ==
    { TRow(1, <<"M", "a", "s", "t", "e", "r", "s">>, <<"A", "u", "g", "u", "s", "t", "a">>, 72, Date21, 21, PlayerAB, 1, 70),
      TRow(2, <<"M", "e", "m", "o", "r", "i", "a", "l">>, <<"R", "i", "v", "i", "e", "r", "a">>, 72, Date21, 21, PlayerC, 1, 70) }

UiQueries ==
    { <<"A", "u", "g", "u", "s", "t", "a", " ", "c", "o", "u", "r", "s", "e">>, <<"g", "o", "l", "f", " ", "c", "o", "u", "r", "s", "e">>, <<"M", "a", "s", "t", "e", "r", "s", " ", "t", "o", "u", "r", "n", "a", "m", "e", "n", "t">>, <<"t", "o", "u", "r", "n", "a", "m", "e", "n", "t", " ", "l", "i", "s", "t">> }

InitUi ==
    /\ tournament_csv \in {File(rows) : rows \in SeqsUpTo(UiRows, MaxRows)}
    /\ yearly_csv = Missing
    /\ players = {}
    /\ courses_enhanced = {}
    /\ tournaments_enhanced = {}
    /\ tournament_results = {}
    /\ player_yearly_stats = {}
    /\ pc = "idle"
    /\ runs = 0
    /\ etl_result = "none"
    /\ hist = [op |-> "none", before |-> Empty, repeat |-> FALSE]
    /\ response = NoResponse
    /\ session = NoSession
    /\ log = <<>>
    /\ parsedQuery \in {[query |-> q, parsed |-> [type |-> "none"]] : q \in UiQueries}

NextUi ==
    \/ StartRun
    \/ LoadPlayers
    \/ LoadCourses
    \/ LoadTournaments
    \/ LoadTournamentResults
    \/ CreateSummaryReport
    \/ HandleQuery
    \/ GetCourseInfo
    \/ GetTournamentInfo
    \/ SendResponse

SpecUi == InitUi /\ [][NextUi]_vars

\* the text contains the value, letter case apart
ContainsName(text, value) ==
    text # NaN /\ Contains(toLowerCase(text), toLowerCase(value))

\* C12: when the front end issues a course query or a tournament query with a
\* recognised name, every row /api/courses or /api/tournaments returns has a
\* name containing that value.
C12_RowsMatchRequestedName ==
    /\ ( /\ response.endpoint = "courses"
         /\ response.status = 200
         /\ parsedQuery.parsed.type = "course"
         /\ parsedQuery.parsed.course # null )
          => \A row \in response.body.courses :
                ContainsName(row.course_name, parsedQuery.parsed.course)
    /\ ( /\ response.endpoint = "tournaments"
         /\ response.status = 200
         /\ parsedQuery.parsed.type = "tournament"
         /\ parsedQuery.parsed.tournament # null )
          => \A row \in response.body.tournaments :
                ContainsName(row.tournament_name, parsedQuery.parsed.tournament)

\* ------------------------------------------------------------ properties of the fix script
Modified ==
    \/ courses_enhanced # hist.before.courses_enhanced
    \/ tournaments_enhanced # hist.before.tournaments_enhanced

\* C13 as stated: the script modifies the database only if duplicates were found
\* and the answer is 'y'; for any other answer, or without duplicates,
\* courses_enhanced and tournaments_enhanced are unchanged.
C13_ModifiedOnlyOnAnswerY ==
    hist.op = "main" =>
        (Modified => /\ HasDuplicateCourses(hist.before.courses_enhanced)
                     /\ hist.answer = <<"y">>)

\* C13: the script modifies the database only if analyze_course_duplicates found
\* a duplicate group and the answer, lower-cased and stripped of surrounding
\* blanks, is 'y'; otherwise courses_enhanced and tournaments_enhanced are
\* unchanged.
C13_ModifiedOnlyOnConfirmation ==
    hist.op = "main" =>
        (Modified => /\ HasDuplicateCourses(hist.before.courses_enhanced)
                     /\ strip(str_lower(hist.answer)) = <<"y">>)

C13_Witness ==
    /\ hist.op = "main"
    /\ HasDuplicateCourses(hist.before.courses_enhanced)
    /\ hist.answer = <<" ", "Y", " ">>
    /\ Modified

\* ------------------------------------------------------------ properties of the loaded tables
\* C14: after any ETL runs there is at most one tournament_results row per
\* (tournament_id, player_id), also when the CSV holds two rows for the same
\* tournament id and player within one run.
C14_OneResultPerTournamentAndPlayer ==
    \A r, q \in tournament_results :
        (r.tournament_id = q.tournament_id /\ r.player_id = q.player_id) => r = q

\* C15: after any ETL runs there is at most one tournaments_enhanced row per
\* external_tournament_id, also when CSV rows with the same tournament id differ
\* in course, date, purse, season or no_cut.
C15_OneTournamentPerExternalId ==
    \A t, u \in tournaments_enhanced :
        t.external_tournament_id = u.external_tournament_id => t = u

\* C16: an ETL run never updates or deletes a row that existed before it: every
\* pre-existing row of the five tables is still there, unchanged, during and
\* after the run, also when the CSV carries other values for the same key.
C16_RunKeepsExistingRows ==
    hist.op = "etl" =>
        /\ hist.before.players \subseteq players
        /\ hist.before.courses_enhanced \subseteq courses_enhanced
        /\ hist.before.tournaments_enhanced \subseteq tournaments_enhanced
        /\ hist.before.tournament_results \subseteq tournament_results
        /\ hist.before.player_yearly_stats \subseteq player_yearly_stats

C16_Witness ==
    /\ RunCompleted
    /\ hist.before.players # {}
    /\ hist.before.tournament_results # {}
    /\ \E t \in hist.before.tournaments_enhanced, k \in DOMAIN df_tournament :
          /\ str(df_tournament[k].tournament_id) = t.external_tournament_id
          /\ df_tournament[k].season # t.season

\* the text before the first " - ", the whole text when there is none
Truncated(text) ==
    LET places == {i \in 1..Len(text) : StartsAt(text, Dash, i)}
    IN IF places = {} THEN text ELSE SubSeq(text, 1, Min(places) - 1)

\* load_tournaments has returned in a run that started on an empty database
TournamentsLoadedFromEmpty ==
    /\ hist.op = "etl"
    /\ hist.before = Empty
    /\ \E k \in DOMAIN log : log[k] = "load_tournaments"

\* C17: after the ETL on an empty database every tournament whose CSV course
\* value is present has a course_id that is not NULL, and the course it
\* references has the CSV course value truncated before the first " - " as its
\* course_name.
C17_TournamentCourseMatchesCsv ==
    TournamentsLoadedFromEmpty =>
        \A k \in DOMAIN df_tournament :
            LET row == df_tournament[k]
            IN (notna(row.tournament_name) /\ notna(row.course)) =>
                  \E t \in tournaments_enhanced :
                      /\ t.external_tournament_id = str(row.tournament_id)
                      /\ t.tournament_name = row.tournament_name
                      /\ t.season = row.season
                      /\ t.course_id # NoInt
                      /\ \E c \in courses_enhanced :
                            /\ c.course_id = t.course_id
                            /\ c.course_name = Truncated(row.course)

C17_Witness ==
    /\ TournamentsLoadedFromEmpty
    /\ pc = "idle"
    /\ \E k \in DOMAIN df_tournament :
          /\ notna(df_tournament[k].tournament_name)
          /\ Truncated(df_tournament[k].course) # df_tournament[k].course
    /\ \E k \in DOMAIN df_tournament : isna(df_tournament[k].course)
    /\ Cardinality(tournaments_enhanced) > 1

Done(step) == \E k \in DOMAIN log : log[k] = step

\* in the current run step b has not returned unless step a returned before it
Before(a, b) ==
    \A j \in DOMAIN log : log[j] = b => \E i \in 1..(j - 1) : log[i] = a

\* C19: the load steps run in dependency order: players are committed before any
\* tournament result or yearly statistic is looked up, courses before any
\* tournament is created, tournaments before any result; courses, tournaments
\* and results are loaded only when the tournament CSV was loaded, yearly
\* statistics only when the yearly CSV was loaded, and nothing is loaded when
\* neither file loads.
C19_LoadStepsInDependencyOrder ==
    hist.op = "etl" =>
        /\ Before("load_players", "load_tournament_results")
        /\ Before("load_players", "load_yearly_stats")
        /\ Before("load_courses", "load_tournaments")
        /\ Before("load_tournaments", "load_tournament_results")
        /\ (Done("load_courses") \/ Done("load_tournaments")
               \/ Done("load_tournament_results")) => tournament_loaded
        /\ Done("load_yearly_stats") => yearly_loaded
        /\ (~tournament_loaded /\ ~yearly_loaded) => (log = <<>> /\ Snapshot = hist.before)
        /\ players # hist.before.players => Done("load_players")
        /\ courses_enhanced # hist.before.courses_enhanced => Done("load_courses")
        /\ tournaments_enhanced # hist.before.tournaments_enhanced
              => Done("load_tournaments")
        /\ tournament_results # hist.before.tournament_results
              => Done("load_tournament_results")
        /\ player_yearly_stats # hist.before.player_yearly_stats
              => Done("load_yearly_stats")

C19_Witness ==
    /\ RunCompleted
    /\ log = <<"load_players", "load_courses", "load_tournaments",
               "load_tournament_results", "load_yearly_stats">>
    /\ tournament_results # hist.before.tournament_results
    /\ player_yearly_stats # hist.before.player_yearly_stats

\* a run has returned False after a load step raised
RunFailed ==
    /\ pc = "idle"
    /\ hist.op = "etl"
    /\ etl_result = "False"
    /\ log # <<>>

\* C20: when a load step raises, run_enhanced_etl rolls the session back, returns
\* False and closes the session; the rows the completed steps committed stay in
\* the database and only the uncommitted rows of the failing step are discarded.
C20_FailedRunKeepsCommittedRows ==
    [][pc = "except" =>
          /\ pc' = "idle"
          /\ etl_result' = "False"
          /\ session' = [state |-> "closed", new |-> <<>>]
          /\ players' = players
          /\ courses_enhanced' = courses_enhanced
          /\ tournaments_enhanced' = tournaments_enhanced
          /\ tournament_results' = tournament_results
          /\ player_yearly_stats' = player_yearly_stats
          /\ player_yearly_stats' = hist.before.player_yearly_stats]_vars

C20_Witness ==
    /\ RunFailed
    /\ session.state = "closed"
    /\ Done("load_tournament_results")
    /\ tournament_results # hist.before.tournament_results
    /\ players # hist.before.players
    /\ \E j \in DOMAIN df_yearly, k \in DOMAIN df_yearly :
          k < j /\ notna_num(df_yearly[k].year) /\ isna_num(df_yearly[j].year)
    /\ player_yearly_stats = {}

\* ------------------------------------------------------------ properties of /api/tournament-results
\* C24: /api/tournament-results returns only results of players who made the
\* cut: whatever the player, tournament, year and position parameters, every
\* returned row has made_cut true.
C24_ResultsMadeTheCut ==
    (response.endpoint = "tournament-results" /\ response.status = 200) =>
        \A row \in response.body.results : row.made_cut = TRUE

C24_Witness ==
    /\ response.endpoint = "tournament-results"
    /\ response.status = 200
    /\ response.body.results # {}
    /\ response.args.position = NoArg
    /\ \E tr \in tournament_results :
          /\ tr.made_cut # 1
          /\ \E row \in joined(tr) : filters(row, response.args)

\* ------------------------------------------------------------ properties of fix_course_duplicates
\* C21 as stated: if any statement inside fix_course_duplicates raises, the
\* transaction is rolled back and courses_enhanced and tournaments_enhanced are
\* exactly as before the call.
C21_RaiseLeavesTablesAsBefore ==
    hist.op = "fix_raised" =>
        /\ courses_enhanced = hist.before.courses_enhanced
        /\ tournaments_enhanced = hist.before.tournaments_enhanced

\* C21: if a statement of fix_course_duplicates raises before conn.commit(), the
\* transaction is rolled back and courses_enhanced and tournaments_enhanced are
\* exactly as before the call, also when earlier duplicate groups had already
\* been merged.
C21_RaiseBeforeCommitLeavesTablesAsBefore ==
    (hist.op = "fix_raised" /\ ~hist.committed) =>
        /\ courses_enhanced = hist.before.courses_enhanced
        /\ tournaments_enhanced = hist.before.tournaments_enhanced

C21_Witness ==
    /\ hist.op = "fix_raised"
    /\ ~hist.committed
    /\ hist.merged > 0
    /\ \E t \in tournaments_enhanced, c \in courses_enhanced :
          t.course_id = c.course_id /\ c.course_id # SmallestId(courses_enhanced, c)

\* C22: running fix_course_duplicates again on the database a successful run
\* produced changes no row of courses_enhanced or tournaments_enhanced.
C22_FixIsIdempotent ==
    [][(hist.op = "fix" /\ hist'.op = "fix") =>
          /\ courses_enhanced' = courses_enhanced
          /\ tournaments_enhanced' = tournaments_enhanced]_vars

C22_Witness ==
    /\ hist.op = "fix"
    /\ hist.repeat
    /\ courses_enhanced # {}
    /\ \E t \in tournaments_enhanced : t.course_id # NoInt

\* the distinct (course_name, location) pairs of a table
Pairs(courses) == { <<c.course_name, c.location>> : c \in courses }

\* the (course_name, location) of the course a course_id references, if any
PairOf(courses, course_id) == Pairs({ c \in courses : c.course_id = course_id })

\* C23: a successful fix_course_duplicates keeps the number of tournaments_enhanced
\* rows, the set of distinct (course_name, location) pairs of courses_enhanced,
\* every course row that has no duplicate, and for every tournament the
\* (course_name, location) of the course it references.
C23_FixLosesNoInformation ==
    hist.op = "fix" =>
        /\ Cardinality(tournaments_enhanced) = Cardinality(hist.before.tournaments_enhanced)
        /\ Pairs(courses_enhanced) = Pairs(hist.before.courses_enhanced)
        /\ \A c \in hist.before.courses_enhanced :
              (\A d \in hist.before.courses_enhanced : SameCourse(c, d) => d = c)
                  => c \in courses_enhanced
        /\ \A t \in hist.before.tournaments_enhanced :
              \E u \in tournaments_enhanced :
                  /\ u.tournament_id = t.tournament_id
                  /\ PairOf(courses_enhanced, u.course_id)
                        = PairOf(hist.before.courses_enhanced, t.course_id)

C23_Witness ==
    /\ hist.op = "fix"
    /\ \E c, d, e \in hist.before.courses_enhanced :
          /\ c.course_id < d.course_id
          /\ SameCourse(c, d)
          /\ ~SameCourse(c, e)
          /\ e \in courses_enhanced
          /\ \E t \in hist.before.tournaments_enhanced : t.course_id = d.course_id

====
